---- MODULE Spec2Model ----
(***************************************************************************)
(* Model of client/src/connection.rs: the Connection facade               *)
(* (new, clone, send_message, send_and_recv_message) and the background    *)
(* reader thread (recv, recv_message) over one TcpStream.                  *)
(*                                                                         *)
(* Bytes are naturals below 128.  The inbound half of the stream is        *)
(* modelled byte by byte; the outbound half as the sequence of write       *)
(* system calls that reached the socket.                                   *)
(***************************************************************************)
EXTENDS Integers, Sequences, FiniteSets, TLC

\* ------------------------------------------------------------------ bounds
\* how many frames the peer writes before it falls silent
MaxFrames == 2

\* ------------------------------------------------------- program constants
\* b'W'
MagicW == 87
\* BufWriter::with_capacity(16384, ..)
BufCapacity == 16384
\* write_u8 + write_u32: the bytes of the header
HeaderLen == 5
\* the lengths of the magic_byte and body_length_bytes buffers
MagicLen == 1
LengthLen == 4

\* -------------------------------------------- the external payload codec
\* Field keys of the protobuf messages (one byte each in this model).
TagResultCommunicate == 18
TagInformInit == 34
TagControl == 26
TagMailboxSlot == 42
TagPayload == 10

NoControl == [present |-> FALSE]
Control(slot) == [present |-> TRUE, mailbox_slot |-> slot]
DecodeError == [ok |-> FALSE]

\* the run ids generate_run_id can return, as byte strings
FirstToken == <<49>>
Tokens == {FirstToken, <<50>>}
\* the payload the peer puts in a Result
Pong == <<112>>

EncControl(c) == <<TagMailboxSlot, Len(c.mailbox_slot)>> \o c.mailbox_slot

EncResult(r) ==
    (IF r.control.present
       THEN <<TagControl, Len(EncControl(r.control))>> \o EncControl(r.control)
       ELSE <<>>)
    \o (IF r.payload # <<>> THEN <<TagPayload, Len(r.payload)>> \o r.payload ELSE <<>>)

EncServerResponse(m) ==
    CASE m.type = "ResultCommunicate" ->
           <<TagResultCommunicate, Len(EncResult(m.result))>> \o EncResult(m.result)
      [] m.type = "InformInit" -> <<TagInformInit, 0>>
      [] OTHER -> <<>>

\* A body as recv_message holds it: a vector of length len whose first
\* Len(data) bytes were filled by read and whose other bytes are still 0.
At(b, i) == IF i <= Len(b.data) THEN b.data[i] ELSE 0
Slice(b, lo, hi) == [i \in 1..(hi - lo + 1) |-> At(b, lo + i - 1)]

RECURSIVE ParseControl(_, _, _, _)
ParseControl(b, lo, hi, acc) ==
    IF lo > hi THEN acc
    ELSE IF At(b, lo) = TagMailboxSlot /\ lo + 1 <= hi /\ lo + 1 + At(b, lo + 1) <= hi
      THEN ParseControl(b, lo + 2 + At(b, lo + 1), hi,
                        Control(Slice(b, lo + 2, lo + 1 + At(b, lo + 1))))
      ELSE DecodeError

RECURSIVE ParseResult(_, _, _, _)
ParseResult(b, lo, hi, acc) ==
    IF lo > hi THEN acc
    ELSE IF lo + 1 > hi \/ lo + 1 + At(b, lo + 1) > hi THEN DecodeError
    ELSE LET n == At(b, lo + 1) IN
         CASE At(b, lo) = TagControl ->
                LET c == ParseControl(b, lo + 2, lo + 1 + n, Control(<<>>)) IN
                IF c = DecodeError THEN DecodeError
                ELSE ParseResult(b, lo + 2 + n, hi, [acc EXCEPT !.control = c])
           [] At(b, lo) = TagPayload ->
                ParseResult(b, lo + 2 + n, hi,
                            [acc EXCEPT !.payload = Slice(b, lo + 2, lo + 1 + n)])
           [] OTHER -> DecodeError

RECURSIVE ParseServerResponse(_, _, _, _)
ParseServerResponse(b, lo, hi, acc) ==
    IF lo > hi THEN acc
    ELSE IF lo + 1 > hi \/ lo + 1 + At(b, lo + 1) > hi THEN DecodeError
    ELSE LET n == At(b, lo + 1) IN
         CASE At(b, lo) = TagResultCommunicate ->
                LET r == ParseResult(b, lo + 2, lo + 1 + n,
                                     [control |-> NoControl, payload |-> <<>>]) IN
                IF r = DecodeError THEN DecodeError
                ELSE ParseServerResponse(b, lo + 2 + n, hi,
                         [ok |-> TRUE, type |-> "ResultCommunicate", result |-> r])
           [] At(b, lo) = TagInformInit ->
                ParseServerResponse(b, lo + 2 + n, hi, [ok |-> TRUE, type |-> "InformInit"])
           [] OTHER -> DecodeError

\* wandb_internal::ServerResponse::decode(msg.as_slice())
DecodeServerResponse(b) == ParseServerResponse(b, 1, b.len, [ok |-> TRUE, type |-> "None"])

\* ------------------------------------------------------------- the framing
\* write_u32::<LittleEndian>(n)
LE32(n) == <<n % 256, (n \div 256) % 256, (n \div 65536) % 256, (n \div 16777216) % 256>>

\* u32::from_le_bytes of a 4-byte buffer whose first Len(bytes) bytes were read
FromLE(bytes) ==
    LET b == [len |-> LengthLen, data |-> bytes] IN
    At(b, 1) + 256 * At(b, 2) + 65536 * At(b, 3) + 16777216 * At(b, 4)

\* the bytes send_message puts on the wire for a body
Frame(body) == <<MagicW>> \o LE32(Len(body)) \o body

Min(a, b) == IF a < b THEN a ELSE b
Take(s, k) == SubSeq(s, 1, k)
Drop(s, k) == SubSeq(s, k + 1, Len(s))

\* ------------------------------------------------------------------- state
\* the invocations of send_message / send_and_recv_message by user threads
Calls == {"r1", "r2"}
\* the Connection values: the one new returns, the one new moves into the
\* reader thread, and one more clone made by the user
Conns == {"conn", "conn_clone", "dup"}
\* buf.len() of the marshalled requests: the largest body that still fits the
\* BufWriter behind the header, and the smallest that does not
FitsLen == BufCapacity - HeaderLen
RecordLens == {FitsLen, FitsLen + 1}

VARIABLES
    handles,      \* the HashMaps: map id -> [mailbox_slot -> channel]
    handles_of,   \* Connection value -> the id of its handles map ("none": no such value yet)
    chan,         \* channel(): [queue, rx]; the channel made by call r is called r
    call,         \* per invocation: pc, op, on (the Connection), uuid, len, result
    wire,         \* the writes that reached the outbound half of the stream, in order
    stream_in,    \* bytes the peer wrote that recv_message has not read yet
    pending,      \* the rest of the frame the peer is in the middle of writing
    peer_closed,  \* the peer has closed the stream
    written,      \* per frame the peer has started: its token and the calls awaiting it
    lpc,          \* where the reader thread is: magic, length, body, dispatch, stopped, panicked
    body_length,  \* recv_message's body_length
    body,         \* recv_message's body
    log,          \* the last line the reader thread printed
    eof_at,       \* the read of recv_message that first hit end-of-stream
    cause,        \* why recv_message returned an empty vector
    events        \* what recv did with each decoded message, in order

vars == <<handles, handles_of, chan, call, wire, stream_in, pending, peer_closed, written,
          lpc, body_length, body, log, eof_at, cause, events>>

callVars == <<handles, handles_of, chan, call, wire>>
peerVars == <<stream_in, pending, peer_closed, written>>
loopVars == <<lpc, body_length, body, log, eof_at, cause, events>>

EmptyMap == [t \in {} |-> "r1"]
Insert(m, k, v) == [t \in DOMAIN m \cup {k} |-> IF t = k THEN v ELSE m[t]]
NoResult == [control |-> NoControl, payload |-> <<>>]
\* wandb_internal::Control of a Record, by the two fields the source sets
NoRequestControl == [present |-> FALSE, mailbox_slot |-> <<>>, req_resp |-> FALSE]
RequestControl(slot, req_resp) == [present |-> TRUE, mailbox_slot |-> slot,
                                   req_resp |-> req_resp]
IdleCall == [pc |-> "idle", op |-> "none", on |-> "none", uuid |-> <<>>, len |-> 0,
             given |-> NoRequestControl, control |-> NoRequestControl,
             result |-> NoResult]
NoBody == [len |-> 0, data |-> <<>>]

\* a clone that kept the map of the original, as a shared handle would
share_handles(m, fresh) == m
\* Connection::clone, the handles field: self.handles.clone() builds a new
\* HashMap (map id fresh) holding clones of the senders
clone_handles(m, fresh) == fresh

\* Connection::new: conn gets an empty map, conn_clone = conn.clone() goes to
\* the spawned thread
new == [conn |-> "conn", conn_clone |-> clone_handles("conn", "conn_clone"), dup |-> "none"]

Init ==
    /\ handles_of = new
    /\ handles = [c \in Conns |-> EmptyMap]
    /\ chan = [r \in Calls |-> [queue |-> <<>>, rx |-> "none"]]
    /\ call = [r \in Calls |-> IdleCall]
    /\ wire = <<>>
    /\ stream_in = <<>>
    /\ pending = <<>>
    /\ peer_closed = FALSE
    /\ written = <<>>
    /\ lpc = "magic"
    /\ body_length = 0
    /\ body = NoBody
    /\ log = "Waiting for message..."
    /\ eof_at = "none"
    /\ cause = "none"
    /\ events = <<>>

\* ------------------------------------------------------- borrows and drops
Active(r) == call[r].pc \in {"send", "body", "sent"}
\* a running send_and_recv_message holds &mut self, a running send_message &self
MutBorrowed(o) == \E r \in Calls : Active(r) /\ call[r].on = o
                                    /\ call[r].op = "send_and_recv_message"
Borrowed(o) == \E r \in Calls : Active(r) /\ call[r].on = o
\* the reader's Connection is dropped when its thread ends
Alive(o) == /\ handles_of[o] # "none"
            /\ (o = "conn_clone" => lpc \notin {"stopped", "panicked"})
MapOf(o) == handles[handles_of[o]]
\* some Sender of channel ch still exists
SendersAlive(ch) == \E o \in Conns : Alive(o) /\ \E t \in DOMAIN MapOf(o) : MapOf(o)[t] = ch

\* ------------------------------------------------------------- the facade
\* let conn2 = conn.clone() in user code; needs &conn
UserClone ==
    /\ handles_of["dup"] = "none"
    /\ ~MutBorrowed("conn")
    /\ handles_of' = [handles_of EXCEPT !["dup"] = clone_handles(handles_of["conn"], "dup")]
    /\ handles' = [handles EXCEPT !["dup"] = MapOf("conn")]
    /\ UNCHANGED <<chan, call, wire>>
    /\ UNCHANGED peerVars
    /\ UNCHANGED loopVars

\* an insert that leaves the map as it was
register_nothing(m, uuid, sender) == m
\* self.handles.insert(uuid, sender): the entry for uuid is set, whatever was there
register(m, uuid, sender) == Insert(m, uuid, sender)

\* a control that stays as the caller handed it in
keep_control(control, uuid) == control
\* message.control after the if let: a control that is there gets the two
\* fields set, one that is not is made with them
stamp(control, uuid) ==
    IF control.present
      THEN [control EXCEPT !.mailbox_slot = uuid, !.req_resp = TRUE]
      ELSE RequestControl(uuid, TRUE)

\* send_and_recv_message up to the call of send_message: the run id is
\* generated, the control is stamped, the channel is made and its sender put
\* into self.handles
BeginSendAndRecv(r, o, t, n, c) ==
    /\ call[r].pc = "idle"
    /\ handles_of[o] # "none"
    /\ ~Borrowed(o)
    /\ handles' = [handles EXCEPT ![handles_of[o]] = register(@, t, r)]
    /\ chan' = [chan EXCEPT ![r] = [queue |-> <<>>, rx |-> "alive"]]
    /\ call' = [call EXCEPT ![r] = [pc |-> "send", op |-> "send_and_recv_message",
                                    on |-> o, uuid |-> t, len |-> n, given |-> c,
                                    control |-> stamp(c, t), result |-> NoResult]]
    /\ UNCHANGED <<handles_of, wire>>
    /\ UNCHANGED peerVars
    /\ UNCHANGED loopVars

\* send_message called by the user with a ServerRequest of its own, whose
\* Record has control c
BeginSend(r, o, n, c) ==
    /\ call[r].pc = "idle"
    /\ handles_of[o] # "none"
    /\ ~MutBorrowed(o)
    /\ call' = [call EXCEPT ![r] = [pc |-> "send", op |-> "send_message",
                                    on |-> o, uuid |-> <<>>, len |-> n, given |-> c,
                                    control |-> c, result |-> NoResult]]
    /\ UNCHANGED <<handles, handles_of, chan, wire>>
    /\ UNCHANGED peerVars
    /\ UNCHANGED loopVars

\* BufWriter::write_all of the body behind the 5 buffered header bytes: a body
\* longer than the spare capacity makes the BufWriter write the header out
\* first
SplitsFrame(n) == n > BufCapacity - HeaderLen

Segment(r, part) == [by |-> r, part |-> part, data_length |-> call[r].len,
                     control |-> call[r].control]

\* send_message: the header and the body go through the BufWriter; what fits
\* is written by flush in one write, otherwise the header is written alone
Write(r) ==
    /\ call[r].pc = "send"
    /\ IF SplitsFrame(call[r].len)
         THEN /\ wire' = Append(wire, Segment(r, "header"))
              /\ call' = [call EXCEPT ![r].pc = "body"]
         ELSE /\ wire' = Append(wire, Segment(r, "frame"))
              /\ call' = [call EXCEPT ![r].pc = "sent"]
    /\ UNCHANGED <<handles, handles_of, chan>>
    /\ UNCHANGED peerVars
    /\ UNCHANGED loopVars

\* send_message: the body that did not fit behind the header is written
WriteBody(r) ==
    /\ call[r].pc = "body"
    /\ wire' = Append(wire, Segment(r, "body"))
    /\ call' = [call EXCEPT ![r].pc = "sent"]
    /\ UNCHANGED <<handles, handles_of, chan>>
    /\ UNCHANGED peerVars
    /\ UNCHANGED loopVars

\* send_message: peer_addr, a write or the flush fails on a stream the peer
\* has closed; the unwrap panics, and the unwinding drops the receiver
WriteFails(r) ==
    /\ call[r].pc \in {"send", "body"}
    /\ peer_closed
    /\ call' = [call EXCEPT ![r].pc = "panicked"]
    /\ chan' = [chan EXCEPT ![r].rx = IF @ = "alive" THEN "dropped" ELSE @]
    /\ UNCHANGED <<handles, handles_of, wire>>
    /\ UNCHANGED peerVars
    /\ UNCHANGED loopVars

\* a call that never gets out of receiver.recv()
awaits_always(op) == TRUE
\* only send_and_recv_message goes on to receiver.recv()
awaits(op) == op = "send_and_recv_message"

\* The call returns to its caller once the frame is written: send_message
\* with Ok(()), send_and_recv_message with receiver.recv().unwrap(), that is
\* with the first message of the channel once there is one; on a channel with
\* no message and no sender left recv is Err and unwrap panics.  (The sender
\* stays in self.handles and the reader thread looks tokens up in a map of
\* its own, so a send_and_recv_message that got here stays here.)
Return(r) ==
    /\ call[r].pc = "sent"
    /\ IF ~awaits(call[r].op)
         THEN /\ call' = [call EXCEPT ![r].pc = "done"]
              /\ chan' = chan
         ELSE IF chan[r].queue # <<>>
           THEN /\ call' = [call EXCEPT ![r].pc = "returned",
                                        ![r].result = Head(chan[r].queue)]
                /\ chan' = [chan EXCEPT ![r] = [queue |-> Tail(@.queue), rx |-> "dropped"]]
           ELSE /\ ~SendersAlive(r)
                /\ call' = [call EXCEPT ![r].pc = "panicked"]
                /\ chan' = [chan EXCEPT ![r].rx = "dropped"]
    /\ UNCHANGED <<handles, handles_of, wire>>
    /\ UNCHANGED peerVars
    /\ UNCHANGED loopVars

\* --------------------------------------------------------- the reader thread
\* std::io::Read::read on the stream: blocks until a byte or end-of-stream is
\* there, then takes what is there, at most the buffer's length
Readable == stream_in # <<>> \/ peer_closed
ReadCount(want) == Min(want, Len(stream_in))
\* the stream ends before the wanted bytes
EndsWithin(want) == peer_closed /\ Len(stream_in) < want
NoteEof(where, want) == IF eof_at = "none" /\ EndsWithin(want) THEN where ELSE eof_at

\* magic_byte != [b'W']: recv_message returns vec![]
bad_magic(magic_byte) == magic_byte # <<MagicW>>
\* msg.len() == 0: recv breaks out of its loop
loop_breaks(msg_len) == msg_len = 0

\* recv_message, the read of the magic byte; on a byte other than 'W', and on
\* no byte at all (magic_byte stays [0]), it returns vec![] and recv breaks
ReadMagic ==
    /\ lpc = "magic"
    /\ Readable
    /\ LET n == ReadCount(MagicLen)
           magic_byte == IF n = 0 THEN <<0>> ELSE Take(stream_in, n)
       IN /\ stream_in' = Drop(stream_in, n)
          /\ eof_at' = NoteEof("magic", MagicLen)
          /\ IF bad_magic(magic_byte)
               THEN IF loop_breaks(0)
                      THEN /\ lpc' = "stopped"
                           /\ log' = "Connection closed"
                           /\ cause' = IF n = 0 THEN "end_of_stream" ELSE "bad_magic"
                      ELSE /\ lpc' = "dispatch"
                           /\ log' = "Magic number is not 'W'"
                           /\ cause' = cause
               ELSE /\ lpc' = "length"
                    /\ log' = "Magic byte"
                    /\ cause' = cause
    /\ UNCHANGED <<body_length, body, events>>
    /\ UNCHANGED <<pending, peer_closed, written>>
    /\ UNCHANGED callVars

\* recv_message, the read of the length: one read into a 4-byte buffer of zeros
ReadLength ==
    /\ lpc = "length"
    /\ Readable
    /\ LET n == ReadCount(LengthLen)
       IN /\ stream_in' = Drop(stream_in, n)
          /\ body_length' = FromLE(Take(stream_in, n))
          /\ eof_at' = NoteEof("length", LengthLen)
    /\ lpc' = "body"
    /\ log' = "Body length"
    /\ UNCHANGED <<body, cause, events>>
    /\ UNCHANGED <<pending, peer_closed, written>>
    /\ UNCHANGED callVars

\* recv_message, the read of the body: one read into a buffer of body_length
\* zeros, which is returned whole; recv breaks when it is empty
ReadBody ==
    /\ lpc = "body"
    /\ body_length = 0 \/ Readable
    /\ LET n == ReadCount(body_length)
       IN /\ stream_in' = Drop(stream_in, n)
          /\ body' = [len |-> body_length, data |-> Take(stream_in, n)]
          /\ eof_at' = NoteEof("body", body_length)
    /\ IF loop_breaks(body_length)
         THEN /\ lpc' = "stopped"
              /\ log' = "Connection closed"
              /\ cause' = "empty_body"
         ELSE /\ lpc' = "dispatch"
              /\ log' = "Body"
              /\ cause' = cause
    /\ UNCHANGED <<body_length, events>>
    /\ UNCHANGED <<pending, peer_closed, written>>
    /\ UNCHANGED callVars

\* self.handles.get(mailbox_slot)
lookup(m, mailbox_slot) == IF mailbox_slot \in DOMAIN m THEN m[mailbox_slot] ELSE "nobody"

\* a token some Connection of the user has an entry for
Registered(slot) == \E o \in {"conn", "dup"} : Alive(o) /\ slot \in DOMAIN MapOf(o)
Event(kind, slot, to) == [kind |-> kind, mailbox_slot |-> slot, to |-> to,
                          known |-> Registered(slot), after_eof |-> eof_at # "none"]

\* recv, from the decode of the body to the end of the match
Dispatch ==
    /\ lpc = "dispatch"
    /\ LET m == DecodeServerResponse(body) IN
       IF ~m.ok
         THEN \* decode(..).unwrap() panics
              /\ lpc' = "panicked"
              /\ log' = "panicked at unwrap"
              /\ cause' = "decode_error"
              /\ UNCHANGED <<chan, events>>
         ELSE IF m.type = "ResultCommunicate"
           THEN IF m.result.control.present
                  THEN LET slot == m.result.control.mailbox_slot
                           sender == lookup(MapOf("conn_clone"), slot)
                       IN IF sender # "nobody"
                            THEN IF chan[sender].rx = "alive"
                                   THEN /\ chan' = [chan EXCEPT ![sender].queue =
                                                       Append(@, m.result)]
                                        /\ events' = Append(events,
                                                       Event("delivered", slot, sender))
                                        /\ lpc' = "magic"
                                        /\ log' = "Sending result to sender"
                                        /\ cause' = cause
                                   ELSE \* send(..).expect("Failed to send result") panics
                                        /\ lpc' = "panicked"
                                        /\ log' = "panicked at Failed to send result"
                                        /\ cause' = "send_error"
                                        /\ UNCHANGED <<chan, events>>
                            ELSE /\ events' = Append(events, Event("unmatched", slot, "nobody"))
                                 /\ lpc' = "magic"
                                 /\ log' = "Failed to send result to sender"
                                 /\ cause' = cause
                                 /\ chan' = chan
                  ELSE /\ events' = Append(events, Event("no_control", <<>>, "nobody"))
                       /\ lpc' = "magic"
                       /\ log' = "Received ResultCommunicate without control"
                       /\ cause' = cause
                       /\ chan' = chan
           ELSE /\ events' = Append(events, Event(IF m.type = "None" THEN "no_type"
                                                   ELSE "unknown_type", <<>>, "nobody"))
                /\ lpc' = "magic"
                /\ log' = IF m.type = "None" THEN "Received message without type"
                          ELSE "Received message with unknown type"
                /\ cause' = cause
                /\ chan' = chan
    /\ body' = NoBody
    /\ body_length' = 0
    /\ UNCHANGED <<eof_at>>
    /\ UNCHANGED <<handles, handles_of, call, wire>>
    /\ UNCHANGED peerVars

\* ------------------------------------------------------------------ the peer
\* a token generate_run_id never returns
Stray == <<51>>
PeerTokens == Tokens \cup {Stray}
ResultOf(t) == [control |-> Control(t), payload |-> Pong]
ResultFrame(t) ==
    Frame(EncServerResponse([type |-> "ResultCommunicate", result |-> ResultOf(t)]))

\* the calls whose request is on the wire and that wait for a Result with token t
Awaiting(t) == {r \in Calls : call[r].pc = "sent" /\ call[r].op = "send_and_recv_message"
                               /\ call[r].uuid = t}
Note(t) == Append(written, [mailbox_slot |-> t, awaited |-> Awaiting(t)])

\* the peer writes the Result frame for token t, which arrives in one piece
PeerSend(t) ==
    /\ ~peer_closed
    /\ pending = <<>>
    /\ Len(written) < MaxFrames
    /\ stream_in' = stream_in \o ResultFrame(t)
    /\ written' = Note(t)
    /\ UNCHANGED <<pending, peer_closed>>
    /\ UNCHANGED callVars
    /\ UNCHANGED loopVars

\* the peer closes the stream; what it had not written of a frame is never written
PeerClose ==
    /\ ~peer_closed
    /\ peer_closed' = TRUE
    /\ pending' = <<>>
    /\ UNCHANGED <<stream_in, written>>
    /\ UNCHANGED callVars
    /\ UNCHANGED loopVars

\* the peer starts to write a frame
PeerBegin(f, t) ==
    /\ ~peer_closed
    /\ pending = <<>>
    /\ Len(written) < MaxFrames
    /\ pending' = f
    /\ written' = Note(t)
    /\ UNCHANGED <<stream_in, peer_closed>>
    /\ UNCHANGED callVars
    /\ UNCHANGED loopVars

\* the next byte of the frame arrives
PeerFlush ==
    /\ pending # <<>>
    /\ stream_in' = Append(stream_in, Head(pending))
    /\ pending' = Tail(pending)
    /\ UNCHANGED <<peer_closed, written>>
    /\ UNCHANGED callVars
    /\ UNCHANGED loopVars

\* what else a peer can write: a Result without control, another variant of
\* ServerResponse, a ServerResponse with no variant set (an empty body), and
\* a frame whose first byte is not 'W'
NoControlFrame ==
    Frame(EncServerResponse([type |-> "ResultCommunicate",
                             result |-> [control |-> NoControl, payload |-> Pong]]))
InformInitFrame == Frame(EncServerResponse([type |-> "InformInit"]))
EmptyFrame == Frame(EncServerResponse([type |-> "None"]))
BadMagicFrame == <<MagicW + 1>> \o Tail(InformInitFrame)
OtherFrames == {NoControlFrame, InformInitFrame, EmptyFrame, BadMagicFrame}

\* the controls a caller hands in with its Record: none, one with a slot and
\* req_resp of its own, and one that asks for a response
Asking == RequestControl(FirstToken, TRUE)
UserControls == {NoRequestControl, RequestControl(Stray, FALSE), Asking}

\* --------------------------------------------------------- specifications
\* Spec: the calls and the reader, with a peer that answers with well-formed
\* Result frames, each arriving whole; requests fit one write.
Next ==
    \/ UserClone
    \/ \E r \in Calls, o \in {"conn", "dup"}, t \in Tokens :
           BeginSendAndRecv(r, o, t, FitsLen, NoRequestControl)
    \/ \E r \in Calls, o \in {"conn", "dup"} : BeginSend(r, o, FitsLen, Asking)
    \/ \E r \in Calls : Write(r)
    \/ \E r \in Calls : WriteFails(r)
    \/ \E r \in Calls : Return(r)
    \/ ReadMagic
    \/ ReadLength
    \/ ReadBody
    \/ Dispatch
    \/ \E t \in PeerTokens : PeerSend(t)
    \/ PeerClose

Spec == Init /\ [][Next]_vars

\* SpecWire: the outbound half alone, with requests of both sizes.
NextWire ==
    \/ UserClone
    \/ \E r \in Calls, o \in {"conn", "dup"}, t \in Tokens, n \in RecordLens,
          c \in UserControls : BeginSendAndRecv(r, o, t, n, c)
    \/ \E r \in Calls, o \in {"conn", "dup"}, n \in RecordLens, c \in UserControls :
           BeginSend(r, o, n, c)
    \/ \E r \in Calls : Write(r)
    \/ \E r \in Calls : WriteBody(r)
    \/ \E r \in Calls : Return(r)

SpecWire == Init /\ [][NextWire]_vars

\* SpecStream: the inbound half byte by byte, with a peer that writes any of
\* the frames, in pieces, and may close the stream in the middle of one.
NextStream ==
    \/ BeginSendAndRecv("r1", "conn", FirstToken, FitsLen, NoRequestControl)
    \/ Write("r1")
    \/ ReadMagic
    \/ ReadLength
    \/ ReadBody
    \/ Dispatch
    \/ \E t \in {FirstToken, Stray} : PeerBegin(ResultFrame(t), t)
    \/ \E f \in OtherFrames : PeerBegin(f, <<>>)
    \/ PeerFlush
    \/ PeerClose

SpecStream == Init /\ [][NextStream]_vars

\* the reader thread runs whenever it can
FairSpecStream == SpecStream /\ WF_vars(ReadMagic \/ ReadLength \/ ReadBody \/ Dispatch)

\* ------------------------------------------------------------------ claims
Stopped == lpc \in {"stopped", "panicked"}
IsRequest(r) == call[r].op = "send_and_recv_message"
Waiting(r) == IsRequest(r) /\ call[r].pc = "sent"
\* the reader has gone through a Result that the peer wrote for call r
Answered(r) == \E i \in 1..Len(events) : r \in written[i].awaited
\* call r holds the Result with its own token, in its channel or returned
Has(r) == \/ chan[r].queue = <<ResultOf(call[r].uuid)>>
          \/ call[r].pc = "returned" /\ call[r].result = ResultOf(call[r].uuid)

\* C1: a Result that the peer writes for a call already made, on a stream
\* that stays open, is delivered by the reader thread to that call.
ResponseDelivered ==
    ~peer_closed =>
        \A i \in 1..Len(events) : \A r \in written[i].awaited :
            events[i].kind = "delivered" /\ events[i].to = r

\* C2: the map the reader thread looks tokens up in holds exactly the tokens
\* registered in the map of the Connection that new returned.
RegistryShared == DOMAIN MapOf("conn_clone") = DOMAIN MapOf("conn")

\* C3: of two outstanding requests with different tokens, once the Results
\* for both have gone through the reader, each call holds the Result with its
\* own token; and no call ever gets a Result with another token.
CorrelationCorrect ==
    /\ \A r1, r2 \in Calls :
          (/\ r1 # r2 /\ IsRequest(r1) /\ IsRequest(r2)
           /\ call[r1].uuid # call[r2].uuid
           /\ Answered(r1) /\ Answered(r2)) => Has(r1) /\ Has(r2)
    /\ \A r \in Calls :
          /\ \A i \in 1..Len(chan[r].queue) :
                chan[r].queue[i].control = Control(call[r].uuid)
          /\ call[r].pc = "returned" => call[r].result.control = Control(call[r].uuid)

\* C4: once the Result for a call's token has gone through the reader, and
\* once the call has returned, the map of the call's Connection has no entry
\* for the token.
EntryRemoved ==
    \A r \in Calls :
        (IsRequest(r) /\ (Answered(r) \/ call[r].pc = "returned"))
            => call[r].uuid \notin DOMAIN MapOf(call[r].on)

\* C5: when the reader thread has ended and a call is still blocked in
\* receiver.recv() on an empty channel, no sender of that channel is left,
\* so that recv returns an error.
NoCallerHangs ==
    \A r \in Calls :
        (Stopped /\ Waiting(r) /\ chan[r].queue = <<>>) => ~SendersAlive(r)

\* C6: on the wire the header of a frame is directly followed by the body of
\* the same call.
FramesAtomic ==
    \A i \in 1..(Len(wire) - 1) :
        wire[i].part = "header" => wire[i + 1].by = wire[i].by /\ wire[i + 1].part = "body"

\* a Result that goes through the reader after one with an unknown token, and
\* that a call is waiting for, is delivered to that call
LaterDelivered ==
    \A i, j \in 1..Len(events) :
        (/\ i < j
         /\ events[i].kind = "unmatched" /\ ~events[i].known
         /\ written[j].awaited # {})
            => events[j].kind = "delivered" /\ events[j].to \in written[j].awaited
UnmatchedDropped ==
    /\ Len(events') = Len(events) + 1
    /\ events'[Len(events')].kind = "unmatched"
    /\ ~events'[Len(events')].known
\* C7: a Result whose token was never registered leaves the reader running
\* and the maps as they were, and a Result that comes after it for a waiting
\* call is delivered to that call.
UnmatchedNonFatal ==
    [][/\ UnmatchedDropped => lpc' = "magic" /\ handles' = handles
       /\ LaterDelivered']_vars

\* no Result decoded after the end of the stream was met is put into a channel
NoDeliveryAfterEof ==
    \A i \in 1..Len(events) : events[i].after_eof => events[i].kind # "delivered"
\* C8: once a read of recv_message has met the end of the stream (at the
\* magic byte, in the length or in the body), the reader thread ends, its end
\* leaves the calls, the maps and the channels as they are, and no Result is
\* put into a channel any more.
ClosedStreamTermination ==
    /\ [](eof_at # "none" => <>Stopped)
    /\ [](NoDeliveryAfterEof)
    /\ [][(eof_at # "none" /\ ~Stopped /\ Stopped') =>
              call' = call /\ handles' = handles /\ chan' = chan]_vars
\* the stream ended inside a body, the filled-up body was decoded, and the
\* reader thread has ended
TruncatedBodyDecoded ==
    /\ eof_at = "body"
    /\ lpc = "stopped"
    /\ \E i \in 1..Len(events) : events[i].after_eof /\ events[i].known

\* C9: a first byte other than 'W' ends the reader thread with a report that
\* differs from the one for a closed connection, and nothing is delivered.
BadMagicRejected ==
    cause = "bad_magic" =>
        /\ lpc = "stopped"
        /\ log # "Connection closed"
        /\ \A i \in 1..Len(events) : events[i].kind # "delivered"

\* C10: a send_and_recv_message whose token is already in the map fails, and
\* leaves the maps as they are.
DuplicateTokenRejected ==
    [][\A r \in Calls :
          (/\ call[r].pc = "idle"
           /\ call'[r].op = "send_and_recv_message"
           /\ call'[r].uuid \in DOMAIN MapOf(call'[r].on))
              => call'[r].pc = "failed" /\ handles' = handles]_vars

\* C11: a call whose write or flush fails ends by handing an error value to
\* its caller: it does not panic, and it does not go on to receive.
SendFailureReturned ==
    [][\A r \in Calls :
          (call[r].pc \in {"send", "body"} /\ call'[r].pc \notin {"send", "body", "sent"})
              => call'[r].pc = "failed"]_vars

\* the bodies of the frames the peer writes in the framing of send_message
FramedBodies ==
    {Drop(f, HeaderLen) : f \in {ResultFrame(FirstToken), ResultFrame(Stray),
                                  NoControlFrame, InformInitFrame, EmptyFrame}}
\* C12: on a stream that has not ended, the body recv_message returns (its
\* body_length bytes) is the body of a frame as it was written: magic 'W',
\* the length in 4 little-endian bytes, the body.
FramingRoundTrip ==
    (lpc = "dispatch" /\ eof_at = "none") => Slice(body, 1, body.len) \in FramedBodies

\* C13: send_message, also with a Record whose control has req_resp set,
\* never touches a map or a channel, and once it is called it can write its
\* frame and return whatever has or has not come in.
FireAndForget ==
    /\ [][\A r \in Calls :
             (call'[r].op = "send_message" /\ call'[r] # call[r])
                 => handles' = handles /\ handles_of' = handles_of /\ chan' = chan]_vars
    /\ [](\A r \in Calls :
             call[r].op = "send_message" =>
                 /\ call[r].pc = "send" => ENABLED Write(r)
                 /\ call[r].pc = "sent" => ENABLED Return(r))
\* a send_message whose control asked for a response has returned, and no
\* frame has come in at all
SentWithoutReply ==
    \E r \in Calls :
        /\ call[r].op = "send_message" /\ call[r].pc = "done"
        /\ call[r].control.present /\ call[r].control.req_resp
        /\ written = <<>> /\ events = <<>>

\* C14: whenever a write of a send_and_recv_message call is on the wire, the
\* map of the Connection the call was made on has an entry for the token the
\* frame carries; so whenever the reader has gone through a Result that the
\* peer wrote for a waiting call, a Connection of the user had the entry.
RegisterBeforeSend ==
    /\ \A i \in 1..Len(wire) :
          IsRequest(wire[i].by) =>
              wire[i].control.mailbox_slot \in DOMAIN MapOf(call[wire[i].by].on)
    /\ \A i \in 1..Len(events) : written[i].awaited # {} => events[i].known
\* the reader has gone through a Result written for a call whose request is
\* on the wire
RequestAnswered ==
    \E i \in 1..Len(events) : \E r \in written[i].awaited :
        \E k \in 1..Len(wire) : wire[k].by = r

\* C15: on a stream that has not ended, recv_message hands a body to recv
\* only when read has filled all of its body_length bytes.
ReadsExact ==
    (lpc = "dispatch" /\ eof_at = "none") => Len(body.data) = body.len

\* C16: on a stream that has not ended the reader thread ends only at a
\* first byte other than 'W' or at a body that does not decode; a frame
\* with 'W' and length 0 does not end it.
StopsOnlyOnCloseOrError ==
    (Stopped /\ eof_at = "none") => cause \in {"bad_magic", "decode_error"}

\* C17: when the reader has gone through a Result for a waiting call and
\* then through another with the same token, the call has returned with the
\* first and the second was found unmatched and dropped, the reader going on.
RepeatDropped ==
    \A i, j \in 1..Len(events) :
        (/\ i < j
         /\ events[i].mailbox_slot = events[j].mailbox_slot
         /\ written[i].awaited # {})
            => /\ \A r \in written[i].awaited : call[r].pc = "returned"
               /\ events[j].kind = "unmatched"
               /\ lpc # "panicked"

\* C18: no channel ever holds more than one Result, and the reader puts at
\* most one Result into the channel of a call, however many Results with the
\* call's token the peer writes.
OneShot ==
    /\ \A r \in Calls : Len(chan[r].queue) <= 1
    /\ \A i, j \in 1..Len(events) :
          (i # j /\ events[i].kind = "delivered" /\ events[j].kind = "delivered")
              => events[i].to # events[j].to
\* the reader has gone through two Results with the token of a call that was
\* waiting for it both times
TwoResultsOneToken ==
    \E i, j \in 1..Len(events) :
        /\ i < j
        /\ events[i].mailbox_slot = events[j].mailbox_slot
        /\ written[i].awaited # {} /\ written[j].awaited = written[i].awaited

\* the bodies of a Result without control, of a ServerResponse of another
\* variant, and of a ServerResponse with no variant set
UnhandledBodies ==
    {Drop(f, HeaderLen) : f \in {NoControlFrame, InformInitFrame, EmptyFrame}}
\* C19: when recv_message, on a stream that has not ended, returns one of
\* these bodies, the reader goes on to decode it, and having decoded it puts
\* nothing into a channel, leaves the maps as they are and goes on to read
\* the next frame.
UnhandledNonFatal ==
    [][/\ (/\ lpc = "body" /\ lpc' # lpc /\ eof_at' = "none"
           /\ Slice(body', 1, body'.len) \in UnhandledBodies)
             => lpc' = "dispatch"
       /\ (lpc = "dispatch" /\ lpc' # lpc /\ Slice(body, 1, body.len) \in UnhandledBodies)
             => lpc' = "magic" /\ chan' = chan /\ handles' = handles]_vars

\* C20: every write of a send_and_recv_message call on the wire carries a
\* control whose mailbox_slot is the token under which the call's sender is
\* in the map of its Connection and whose req_resp is true, whatever control
\* the caller handed in.
ControlStamped ==
    \A i \in 1..Len(wire) :
        LET r == wire[i].by IN
        IsRequest(r) =>
            /\ wire[i].control.present
            /\ wire[i].control.req_resp
            /\ wire[i].control.mailbox_slot = call[r].uuid
            /\ lookup(MapOf(call[r].on), call[r].uuid) = r
\* the body of a request is on the wire whose caller had set another slot
\* and req_resp = false, and that of one whose caller had set no control
ControlOverwritten ==
    /\ \E i \in 1..Len(wire) :
          /\ IsRequest(wire[i].by) /\ wire[i].part \in {"frame", "body"}
          /\ call[wire[i].by].given.present
          /\ call[wire[i].by].given.mailbox_slot # call[wire[i].by].uuid
          /\ ~call[wire[i].by].given.req_resp
    /\ \E i \in 1..Len(wire) :
          /\ IsRequest(wire[i].by) /\ wire[i].part \in {"frame", "body"}
          /\ ~call[wire[i].by].given.present

====
